---- MODULE Spec2Model ----
(***************************************************************************)
(* Resource API service of src/server.py: three document collections       *)
(* (destinations, trips, bookings) behind create / list / get handlers and *)
(* the seed operation.  Each `await db...` store call is one atomic step;  *)
(* a handler with a single store call is one action, seed_data is four.    *)
(* The store's own `_id` field is projected out by every read              *)
(* ({"_id": 0}) and never written by a handler, so documents are modelled  *)
(* without it.  A store call of a writing handler may raise; the exception *)
(* is not caught and the request ends in a 500.  A read that raises leaves *)
(* the store as it is and is not modelled.                                 *)
(***************************************************************************)
EXTENDS Integers, Sequences, FiniteSets, TLC

\* ------------------------------------------------------------------ bounds
\* number of uuid4() values the model lets the service draw
MaxUuids == 2
\* seed requests that may be in flight at the same time
Seeds == {"seed-a", "seed-b"}

\* ------------------------------------------------------- program constants
\* to_list(1000) in the three list handlers
ListCap == 1000

\* ------------------------------------------------------------ fixed dataset
destinations_data ==
  << [ id |-> "dest-1",
       name |-> "Gangtok",
       region |-> "Sikkim",
       description |-> "The capital of Sikkim, nestled in the Himalayas with stunning mountain views and rich Buddhist culture.",
       image_url |-> "https://images.unsplash.com/photo-1761820228515-b79043c31856?crop=entropy&cs=srgb&fm=jpg&ixid=M3w3NDQ2NDN8MHwxfHNlYXJjaHwxfHxIaW1hbGF5YW4lMjBtb3VudGFpbiUyMHZpc3RhfGVufDB8fHx8MTc2MjEwNDgwNXww&ixlib=rb-4.1.0&q=85",
       highlights |-> <<"Tsomgo Lake", "Nathula Pass", "Rumtek Monastery", "MG Marg">>,
       best_season |-> "March to June, September to December" ],
     [ id |-> "dest-2",
       name |-> "Darjeeling",
       region |-> "West Bengal",
       description |-> "Famous for its tea gardens, toy train, and breathtaking views of Kanchenjunga.",
       image_url |-> "https://images.unsplash.com/photo-1742286087572-937f08b947b8?crop=entropy&cs=srgb&fm=jpg&ixid=M3w3NDQ2Mzl8MHwxfHNlYXJjaHwxfHx0ZWElMjBnYXJkZW4lMjBsYW5kc2NhcGV8ZW58MHx8fHwxNzYyMTA0ODA1fDA&ixlib=rb-4.1.0&q=85",
       highlights |-> <<"Tiger Hill", "Darjeeling Himalayan Railway", "Tea Gardens", "Batasia Loop">>,
       best_season |-> "April to June, September to November" ],
     [ id |-> "dest-3",
       name |-> "Tawang",
       region |-> "Arunachal Pradesh",
       description |-> "Home to India's largest monastery and spectacular mountain landscapes.",
       image_url |-> "https://images.unsplash.com/photo-1633538028057-838fd4e027a4?crop=entropy&cs=srgb&fm=jpg&ixid=M3w3NTY2NjZ8MHwxfHNlYXJjaHwxfHxCdWRkaGlzdCUyMG1vbmFzdGVyeXxlbnwwfHx8fDE3NjIxMDQ4MDZ8MA&ixlib=rb-4.1.0&q=85",
       highlights |-> <<"Tawang Monastery", "Sela Pass", "Madhuri Lake", "Bumla Pass">>,
       best_season |-> "March to October" ],
     [ id |-> "dest-4",
       name |-> "Shillong",
       region |-> "Meghalaya",
       description |-> "The 'Scotland of the East' with rolling hills, waterfalls, and pleasant weather.",
       image_url |-> "https://images.unsplash.com/photo-1752063497357-4a9e0b765771?crop=entropy&cs=srgb&fm=jpg&ixid=M3w3NDQ2NDN8MHwxfHNlYXJjaHwyfHxIaW1hbGF5YW4lMjBtb3VudGFpbiUyMHZpc3RhfGVufDB8fHx8MTc2MjEwNDgwNXww&ixlib=rb-4.1.0&q=85",
       highlights |-> <<"Elephant Falls", "Shillong Peak", "Ward's Lake", "Don Bosco Museum">>,
       best_season |-> "October to May" ] >>

trips_data ==
  << [ id |-> "trip-1",
       destination_id |-> "dest-1",
       destination_name |-> "Gangtok",
       title |-> "Gangtok Paradise - 5 Days",
       duration |-> "5 Days / 4 Nights",
       price_veg |-> 18500,
       price_non_veg |-> 21000,
       pickup_time |-> "8:00 AM from Bagdogra Airport/NJP Station",
       itinerary |-> <<"Day 1: Arrival in Gangtok, check-in, MG Marg evening walk", "Day 2: Tsomgo Lake & Baba Mandir excursion", "Day 3: Nathula Pass visit (subject to permit)", "Day 4: Rumtek Monastery, Hanuman Tok, Tashi View Point", "Day 5: Departure to Bagdogra/NJP">>,
       inclusions |-> <<"Accommodation", "Daily breakfast, lunch & dinner", "All transfers", "Sightseeing as per itinerary", "Permit fees">>,
       exclusions |-> <<"Personal expenses", "Travel insurance", "Any meals not mentioned">>,
       image_url |-> "https://images.unsplash.com/photo-1761820228515-b79043c31856?crop=entropy&cs=srgb&fm=jpg&ixid=M3w3NDQ2NDN8MHwxfHNlYXJjaHwxfHxIaW1hbGF5YW4lMjBtb3VudGFpbiUyMHZpc3RhfGVufDB8fHx8MTc2MjEwNDgwNXww&ixlib=rb-4.1.0&q=85" ],
     [ id |-> "trip-2",
       destination_id |-> "dest-2",
       destination_name |-> "Darjeeling",
       title |-> "Darjeeling Delight - 4 Days",
       duration |-> "4 Days / 3 Nights",
       price_veg |-> 14500,
       price_non_veg |-> 16500,
       pickup_time |-> "7:00 AM from Bagdogra Airport/NJP Station",
       itinerary |-> <<"Day 1: Arrival in Darjeeling, check-in, Mall Road exploration", "Day 2: Tiger Hill sunrise, Ghoom Monastery, Batasia Loop, toy train ride", "Day 3: Tea garden visit, Happy Valley, Himalayan Mountaineering Institute", "Day 4: Departure to Bagdogra/NJP">>,
       inclusions |-> <<"Accommodation", "Daily breakfast, lunch & dinner", "All transfers", "Sightseeing", "Toy train tickets">>,
       exclusions |-> <<"Personal expenses", "Camera fees", "Tips">>,
       image_url |-> "https://images.unsplash.com/photo-1742286087572-937f08b947b8?crop=entropy&cs=srgb&fm=jpg&ixid=M3w3NDQ2Mzl8MHwxfHNlYXJjaHwxfHx0ZWElMjBnYXJkZW4lMjBsYW5kc2NhcGV8ZW58MHx8fHwxNzYyMTA0ODA1fDA&ixlib=rb-4.1.0&q=85" ],
     [ id |-> "trip-3",
       destination_id |-> "dest-3",
       destination_name |-> "Tawang",
       title |-> "Tawang Tranquility - 6 Days",
       duration |-> "6 Days / 5 Nights",
       price_veg |-> 25500,
       price_non_veg |-> 28500,
       pickup_time |-> "6:00 AM from Guwahati Airport/Station",
       itinerary |-> <<"Day 1: Guwahati to Bomdila (overnight journey)", "Day 2: Bomdila to Tawang via Sela Pass", "Day 3: Tawang Monastery, War Memorial, local market", "Day 4: Bumla Pass & Madhuri Lake excursion", "Day 5: Tawang to Bomdila", "Day 6: Bomdila to Guwahati, departure">>,
       inclusions |-> <<"Accommodation", "All meals", "Permits & entry fees", "Transfers", "Guide services">>,
       exclusions |-> <<"Personal expenses", "Travel insurance", "Medical expenses", "Laundry">>,
       image_url |-> "https://images.unsplash.com/photo-1633538028057-838fd4e027a4?crop=entropy&cs=srgb&fm=jpg&ixid=M3w3NTY2NjZ8MHwxfHNlYXJjaHwxfHxCdWRkaGlzdCUyMG1vbmFzdGVyeXxlbnwwfHx8fDE3NjIxMDQ4MDZ8MA&ixlib=rb-4.1.0&q=85" ],
     [ id |-> "trip-4",
       destination_id |-> "dest-4",
       destination_name |-> "Shillong",
       title |-> "Shillong Explorer - 4 Days",
       duration |-> "4 Days / 3 Nights",
       price_veg |-> 15400,
       price_non_veg |-> 17400,
       pickup_time |-> "9:00 AM from Guwahati Airport/Station",
       itinerary |-> <<"Day 1: Guwahati to Shillong, Umiam Lake visit", "Day 2: Cherrapunji day trip - Nohkalikai Falls, Seven Sisters Falls, Mawsmai Cave", "Day 3: Elephant Falls, Shillong Peak, Ward's Lake, Police Bazaar", "Day 4: Departure to Guwahati">>,
       inclusions |-> <<"Accommodation", "Breakfast, lunch & dinner", "Transfers", "Sightseeing", "Entry tickets">>,
       exclusions |-> <<"Personal expenses", "Camera fees", "Adventure activities">>,
       image_url |-> "https://images.unsplash.com/photo-1752063497357-4a9e0b765771?crop=entropy&cs=srgb&fm=jpg&ixid=M3w3NDQ2NDN8MHwxfHNlYXJjaHwyfHxIaW1hbGF5YW4lMjBtb3VudGFpbiUyMHZpc3RhfGVufDB8fHx8MTc2MjEwNDgwNXww&ixlib=rb-4.1.0&q=85" ] >>

\* --------------------------------------------------------- python helpers
\* None / "no document"
None == [py_none |-> TRUE]

\* `not x` for a find_one result: None is falsy, a document (non-empty dict) is truthy
Falsy(x) == x = None

Min(a, b) == IF a <= b THEN a ELSE b

Range(s) == {s[i] : i \in DOMAIN s}

IsPrefix(s, t) == Len(s) <= Len(t) /\ SubSeq(t, 1, Len(s)) = s

\* variant: the generator hands out one value over and over
uuid4_fixed(n) == "uuid-" \o ToString(1)

\* str(uuid.uuid4()): the n-th value drawn; 122 random bits, taken as never repeating
uuid4(n) == "uuid-" \o ToString(n)

\* ------------------------------------------------------------ store client
\* a filter document is a function field -> value; {} has the empty domain
EmptyQuery == <<>>

Matches(doc, query) == \A f \in DOMAIN query : doc[f] = query[f]

find(coll, query) == SelectSeq(coll, LAMBDA doc : Matches(doc, query))

to_list(cursor, length) == SubSeq(cursor, 1, Min(length, Len(cursor)))

\* variant: the filter is ignored and the first document of the collection is returned
find_one_first(coll, query) == IF coll = <<>> THEN None ELSE coll[1]

find_one(coll, query) ==
  LET cursor == find(coll, query)
  IN  IF cursor = <<>> THEN None ELSE cursor[1]

\* variant: the write is acknowledged but not stored
insert_one_dropped(coll, doc) == coll

insert_one(coll, doc) == Append(coll, doc)

\* variant: the bulk insert overwrites the collection
insert_many_replaces(coll, docs) == docs

insert_many(coll, docs) == coll \o docs

\* ordered insert_many that raises at document k+1: the first k are written
insert_many_raises(coll, docs, k) == coll \o SubSeq(docs, 1, k)

\* variant: nothing is deleted
delete_many_keeps(coll, query) == coll

\* variant: delete_one, only the first matching document goes
delete_many_first(coll, query) ==
  LET hits == {i \in DOMAIN coll : Matches(coll[i], query)}
  IN  IF hits = {} THEN coll
      ELSE LET first == CHOOSE i \in hits : \A j \in hits : i <= j
           IN  SubSeq(coll, 1, first - 1) \o SubSeq(coll, first + 1, Len(coll))

\* delete_many(query) removes every matching document
delete_many(coll, query) == SelectSeq(coll, LAMBDA doc : ~Matches(doc, query))

\* --------------------------------------------------------------- datetimes
DigitChar == <<"0", "1", "2", "3", "4", "5", "6", "7", "8", "9">>

Pow10(n) == IF n = 0 THEN 1 ELSE IF n = 1 THEN 10 ELSE IF n = 2 THEN 100
            ELSE IF n = 3 THEN 1000 ELSE IF n = 4 THEN 10000 ELSE 100000

\* zero-padded decimal of n in w characters
Digits(n, w) == [i \in 1..w |-> DigitChar[((n \div Pow10(w - i)) % 10) + 1]]

DigitValue(c) == CHOOSE d \in 0..9 : DigitChar[d + 1] = c

RECURSIVE Number(_)
Number(chars) ==
  IF chars = <<>> THEN 0
  ELSE 10 * Number(SubSeq(chars, 1, Len(chars) - 1)) + DigitValue(chars[Len(chars)])

\* datetime.isoformat() of an aware UTC datetime: YYYY-MM-DDTHH:MM:SS[.ffffff]+00:00,
\* the fraction being omitted when microsecond is 0
isoformat(dt) ==
  [ kind  |-> "str",
    chars |-> Digits(dt.year, 4) \o <<"-">> \o Digits(dt.month, 2) \o <<"-">> \o Digits(dt.day, 2)
              \o <<"T">> \o Digits(dt.hour, 2) \o <<":">> \o Digits(dt.minute, 2)
              \o <<":">> \o Digits(dt.second, 2)
              \o (IF dt.microsecond = 0 THEN <<>> ELSE <<".">> \o Digits(dt.microsecond, 6))
              \o <<"+", "0", "0", ":", "0", "0">> ]

\* variant: the fractional seconds are not read
fromisoformat_seconds(s) ==
  LET c == s.chars
  IN  [ kind        |-> "datetime",
        year        |-> Number(SubSeq(c, 1, 4)),
        month       |-> Number(SubSeq(c, 6, 7)),
        day         |-> Number(SubSeq(c, 9, 10)),
        hour        |-> Number(SubSeq(c, 12, 13)),
        minute      |-> Number(SubSeq(c, 15, 16)),
        second      |-> Number(SubSeq(c, 18, 19)),
        microsecond |-> 0,
        tzinfo      |-> "UTC" ]

\* datetime.fromisoformat() on that format
fromisoformat(s) ==
  LET c        == s.chars
      fraction == Len(c) >= 20 /\ c[20] = "."
      tzpart   == IF fraction THEN SubSeq(c, 27, Len(c)) ELSE SubSeq(c, 20, Len(c))
  IN  [ kind        |-> "datetime",
        year        |-> Number(SubSeq(c, 1, 4)),
        month       |-> Number(SubSeq(c, 6, 7)),
        day         |-> Number(SubSeq(c, 9, 10)),
        hour        |-> Number(SubSeq(c, 12, 13)),
        minute      |-> Number(SubSeq(c, 15, 16)),
        second      |-> Number(SubSeq(c, 18, 19)),
        microsecond |-> IF fraction THEN Number(SubSeq(c, 21, 26)) ELSE 0,
        tzinfo      |-> IF tzpart = <<"+", "0", "0", ":", "0", "0">> THEN "UTC" ELSE "naive" ]

\* isinstance(x, str)
IsStr(x) == x.kind = "str"

UtcDatetime(h, m, s, us) ==
  [ kind |-> "datetime", year |-> 2026, month |-> 1, day |-> 9,
    hour |-> h, minute |-> m, second |-> s, microsecond |-> us, tzinfo |-> "UTC" ]

\* datetime.now(timezone.utc) at the n-th record construction: time advances, and
\* the microsecond part is 0 on every second reading
datetime_now(n) == UtcDatetime(n % 24, (7 * n) % 60, (59 * n) % 60, (n % 2) * (999999 - n))

\* ----------------------------------------------------------- pydantic models
\* Destination(**input.model_dump()): id from the default factory
Destination(input, id) ==
  [ id |-> id, name |-> input.name, region |-> input.region,
    description |-> input.description, image_url |-> input.image_url,
    highlights |-> input.highlights, best_season |-> input.best_season ]

\* TripPackage(**input.model_dump())
TripPackage(input, id) ==
  [ id |-> id, destination_id |-> input.destination_id,
    destination_name |-> input.destination_name, title |-> input.title,
    duration |-> input.duration, price_veg |-> input.price_veg,
    price_non_veg |-> input.price_non_veg, pickup_time |-> input.pickup_time,
    itinerary |-> input.itinerary, inclusions |-> input.inclusions,
    exclusions |-> input.exclusions, image_url |-> input.image_url ]

\* variant: bookings start out unconfirmed
DefaultStatus_pending == "pending"

\* default of Booking.status
DefaultStatus == "confirmed"

\* Booking(**input.model_dump()): id and booking_date from the default factories
Booking(input, id, now) ==
  [ id |-> id, trip_id |-> input.trip_id, trip_title |-> input.trip_title,
    customer_name |-> input.customer_name, customer_email |-> input.customer_email,
    customer_phone |-> input.customer_phone, travel_date |-> input.travel_date,
    guests |-> input.guests, meal_preference |-> input.meal_preference,
    total_amount |-> input.total_amount, booking_date |-> now,
    status |-> DefaultStatus ]

\* ---------------------------------------------------------- request inputs
\* a payload equal, field for field, to the first record of the fixed dataset
DestinationCreate ==
  { [ f \in DOMAIN destinations_data[1] \ {"id"} |-> destinations_data[1][f] ] }

TripPackageCreate ==
  { [ f \in DOMAIN trips_data[1] \ {"id"} |-> trips_data[1][f] ] }

Kohima ==
  [ name |-> "Kohima", region |-> "Nagaland", description |-> "d",
    image_url |-> "http://x", highlights |-> <<"A">>, best_season |-> "Oct" ]

BookingCreate ==
  { [ trip_id |-> "trip-1", trip_title |-> "Gangtok Paradise - 5 Days",
      customer_name |-> "A", customer_email |-> "a@x", customer_phone |-> "1",
      travel_date |-> "soon", guests |-> 2, meal_preference |-> "veg",
      total_amount |-> 37000 ] }

\* the destination_id query parameter: absent (None) or a string
Absent == [given |-> FALSE, value |-> ""]
Given(x) == [given |-> TRUE, value |-> x]
DestinationIdParams == {Absent, Given(""), Given("dest-1"), Given("dest-9")}

\* truthiness of Optional[str]: None and "" are falsy
Truthy(param) == param.given /\ param.value # ""

\* the trip_id path parameter
TripIdParams == {"trip-1", "trip-9", "old-trip"} \cup {uuid4(n) : n \in 1..MaxUuids}

\* ------------------------------------------------------------------- state
VARIABLES
  destinations,      \* db.destinations, in natural order
  trips,             \* db.trips
  bookings,          \* db.bookings
  uuids,             \* number of uuid4() values drawn so far
  pc,                \* per seed request: the store call it is about to make
  resp,              \* response of the request that completed last
  returned,          \* history: ids returned by successful Create calls
  created_dests,     \* history: records returned by Create Destination, and
                     \*          whether a seed has cleared the collection since
  ever_trip_ids,     \* history: the ids of TripIdParams ever inserted into db.trips
  issued,            \* history: booking id -> timestamp generated at creation
  alone,             \* history: the seed request no other request has acted
                     \*          beside since it started (at most one)
  streak,            \* history: successful seeds run back to back, 0..2
  bk0                \* history: Len(bookings) when the current streak started

store == <<destinations, trips, bookings>>
history == <<returned, created_dests, ever_trip_ids, issued, alone, streak, bk0>>
vars == <<destinations, trips, bookings, uuids, pc, resp,
          returned, created_dests, ever_trip_ids, issued, alone, streak, bk0>>

\* documents written by earlier runs of the service
OldBookingAt == UtcDatetime(23, 59, 7, 5)
OldBooking(id, date) ==
  [Booking(CHOOSE b \in BookingCreate : TRUE, id, OldBookingAt) EXCEPT !.booking_date = date]

\* the store when the service starts: empty, or holding documents of earlier runs
\* (one booking written with its timestamp as a string, one with a structured one)
StoreAtStartup ==
  << [ destinations |-> <<>>, trips |-> <<>>, bookings |-> <<>> ],
     [ destinations |-> << Destination(Kohima, "old-dest") >>,
       trips |-> << TripPackage(CHOOSE t \in TripPackageCreate : TRUE, "old-trip") >>,
       bookings |-> << OldBooking("old-booking-1", isoformat(OldBookingAt)),
                       OldBooking("old-booking-2", OldBookingAt) >> ] >>

Init ==
  \E k \in DOMAIN StoreAtStartup :
    /\ destinations = StoreAtStartup[k].destinations
    /\ trips = StoreAtStartup[k].trips
    /\ bookings = StoreAtStartup[k].bookings
    /\ uuids = 0
    /\ pc = [p \in Seeds |-> "idle"]
    /\ resp = [op |-> "none", status |-> 0]
    /\ returned = {}
    /\ created_dests = {}
    /\ ever_trip_ids = {trips[i].id : i \in DOMAIN trips} \cap TripIdParams
    /\ issued = {[id |-> bookings[i].id, at |-> OldBookingAt] : i \in DOMAIN bookings}
    /\ alone = {}
    /\ streak = 0
    /\ bk0 = 0

\* ---------------------------------------------------------------- responses
Ok(op, body) == [op |-> op, status |-> 200, body |-> body]

\* an exception of the store client is not caught: the request ends in a 500
Raised(op, at) == [op |-> op, status |-> 500, raised_at |-> at]

HTTPException(op, status_code, detail) == [op |-> op, status |-> status_code, detail |-> detail]

\* a request other than the seed in `alone` has acted
Disturbed == /\ alone' = {}
             /\ streak' = 0
             /\ UNCHANGED bk0

\* ----------------------------------------------------------------- handlers
get_destinations(coll) == to_list(find(coll, EmptyQuery), ListCap)

GetDestinations ==
  /\ resp' = Ok("get_destinations", get_destinations(destinations))
  /\ Disturbed
  /\ UNCHANGED <<store, uuids, pc, returned, created_dests, ever_trip_ids, issued>>

CreateDestination(input, fail) ==
  /\ uuids < MaxUuids
  /\ uuids' = uuids + 1
  /\ LET dest_obj == Destination(input, uuid4(uuids + 1))
     IN  IF fail
         THEN /\ resp' = Raised("create_destination", "insert_one")
              /\ UNCHANGED <<destinations, returned, created_dests>>
         ELSE /\ destinations' = insert_one(destinations, dest_obj)
              /\ resp' = Ok("create_destination", dest_obj)
              /\ returned' = returned \cup {dest_obj.id}
              /\ created_dests' = created_dests \cup {[doc |-> dest_obj, cleared |-> FALSE]}
  /\ Disturbed
  /\ UNCHANGED <<trips, bookings, pc, ever_trip_ids, issued>>

trips_query(destination_id) ==
  IF Truthy(destination_id) THEN [destination_id |-> destination_id.value] ELSE EmptyQuery

get_trips(coll, destination_id) == to_list(find(coll, trips_query(destination_id)), ListCap)

GetTrips(destination_id) ==
  /\ resp' = [ op |-> "get_trips", status |-> 200, request |-> destination_id,
               body |-> get_trips(trips, destination_id) ]
  /\ Disturbed
  /\ UNCHANGED <<store, uuids, pc, returned, created_dests, ever_trip_ids, issued>>

get_trip(coll, trip_id) ==
  LET trip == find_one(coll, [id |-> trip_id])
  IN  IF Falsy(trip) THEN HTTPException("get_trip", 404, "Trip not found")
      ELSE Ok("get_trip", trip)

GetTrip(trip_id) ==
  /\ resp' = get_trip(trips, trip_id)
  /\ Disturbed
  /\ UNCHANGED <<store, uuids, pc, returned, created_dests, ever_trip_ids, issued>>

CreateTrip(input, fail) ==
  /\ uuids < MaxUuids
  /\ uuids' = uuids + 1
  /\ LET trip_obj == TripPackage(input, uuid4(uuids + 1))
     IN  IF fail
         THEN /\ resp' = Raised("create_trip", "insert_one")
              /\ UNCHANGED <<trips, returned, ever_trip_ids>>
         ELSE /\ trips' = insert_one(trips, trip_obj)
              /\ resp' = Ok("create_trip", trip_obj)
              /\ returned' = returned \cup {trip_obj.id}
              /\ ever_trip_ids' = ever_trip_ids \cup {trip_obj.id}
  /\ Disturbed
  /\ UNCHANGED <<destinations, bookings, pc, created_dests, issued>>

\* the read-side rule of get_bookings for one document
parse_booking_date(booking) ==
  IF IsStr(booking.booking_date)
  THEN [booking EXCEPT !.booking_date = fromisoformat(booking.booking_date)]
  ELSE booking

get_bookings(coll) ==
  LET docs == to_list(find(coll, EmptyQuery), ListCap)
  IN  [i \in DOMAIN docs |-> parse_booking_date(docs[i])]

GetBookings ==
  /\ resp' = Ok("get_bookings", get_bookings(bookings))
  /\ Disturbed
  /\ UNCHANGED <<store, uuids, pc, returned, created_dests, ever_trip_ids, issued>>

\* doc = booking_obj.model_dump(); doc['booking_date'] = doc['booking_date'].isoformat()
booking_doc(booking_obj) == [booking_obj EXCEPT !.booking_date = isoformat(booking_obj.booking_date)]

CreateBooking(input, now, fail) ==
  /\ uuids < MaxUuids
  /\ uuids' = uuids + 1
  /\ LET booking_obj == Booking(input, uuid4(uuids + 1), now)
     IN  IF fail
         THEN /\ resp' = Raised("create_booking", "insert_one")
              /\ UNCHANGED <<bookings, returned, issued>>
         ELSE /\ bookings' = insert_one(bookings, booking_doc(booking_obj))
              /\ resp' = Ok("create_booking", booking_obj)
              /\ returned' = returned \cup {booking_obj.id}
              /\ issued' = issued \cup {[id |-> booking_obj.id, at |-> now]}
  /\ Disturbed
  /\ UNCHANGED <<destinations, trips, pc, created_dests, ever_trip_ids>>

\* ---------------------------------------------------------------- seed_data
\* the request ends (with a response or an exception) and p is free again
SeedEnds(p) == pc' = [pc EXCEPT ![p] = "idle"]

\* await db.destinations.delete_many({})
SeedDeleteDestinations(p, fail) ==
  /\ pc[p] = "idle"
  /\ LET solo == \A q \in Seeds : pc[q] = "idle"
     IN  IF fail
         THEN /\ resp' = Raised("seed", "delete_destinations")
              /\ alone' = IF solo THEN {p} ELSE {}
              /\ streak' = 0
              /\ UNCHANGED <<destinations, pc, created_dests, bk0>>
         ELSE /\ destinations' = delete_many(destinations, EmptyQuery)
              /\ pc' = [pc EXCEPT ![p] = "delete_trips"]
              /\ created_dests' = {[c EXCEPT !.cleared = TRUE] : c \in created_dests}
              /\ alone' = IF solo THEN {p} ELSE {}
              /\ streak' = IF ~solo THEN 0 ELSE IF streak = 2 THEN 1 ELSE streak
              /\ bk0' = IF streak' = 0 THEN Len(bookings) ELSE bk0
              /\ UNCHANGED resp
  /\ UNCHANGED <<trips, bookings, uuids, returned, ever_trip_ids, issued>>

\* await db.trips.delete_many({})
SeedDeleteTrips(p, fail) ==
  /\ pc[p] = "delete_trips"
  /\ alone' = alone \cap {p}
  /\ IF fail
     THEN /\ resp' = Raised("seed", "delete_trips")
          /\ SeedEnds(p)
          /\ streak' = 0
          /\ UNCHANGED trips
     ELSE /\ trips' = delete_many(trips, EmptyQuery)
          /\ pc' = [pc EXCEPT ![p] = "insert_destinations"]
          /\ streak' = IF p \in alone THEN streak ELSE 0
          /\ UNCHANGED resp
  /\ UNCHANGED <<destinations, bookings, uuids, returned, created_dests, ever_trip_ids, issued, bk0>>

\* await db.destinations.insert_many(destinations_data)
SeedInsertDestinations(p, fail, k) ==
  /\ pc[p] = "insert_destinations"
  /\ alone' = alone \cap {p}
  /\ IF fail
     THEN /\ destinations' = insert_many_raises(destinations, destinations_data, k)
          /\ resp' = Raised("seed", "insert_destinations")
          /\ SeedEnds(p)
          /\ streak' = 0
     ELSE /\ destinations' = insert_many(destinations, destinations_data)
          /\ pc' = [pc EXCEPT ![p] = "insert_trips"]
          /\ streak' = IF p \in alone THEN streak ELSE 0
          /\ UNCHANGED resp
  /\ UNCHANGED <<trips, bookings, uuids, returned, created_dests, ever_trip_ids, issued, bk0>>

\* await db.trips.insert_many(trips_data); return {...}
SeedInsertTrips(p, fail, k) ==
  /\ pc[p] = "insert_trips"
  /\ alone' = alone \cap {p}
  /\ SeedEnds(p)
  /\ IF fail
     THEN /\ trips' = insert_many_raises(trips, trips_data, k)
          /\ resp' = Raised("seed", "insert_trips")
          /\ streak' = 0
     ELSE /\ trips' = insert_many(trips, trips_data)
          /\ resp' = Ok("seed", [ message |-> "Database seeded successfully",
                                  destinations |-> Len(destinations_data),
                                  trips |-> Len(trips_data) ])
          /\ streak' = IF p \in alone THEN streak + 1 ELSE 0
  /\ ever_trip_ids' = ever_trip_ids \cup ({trips'[i].id : i \in DOMAIN trips'} \cap TripIdParams)
  /\ UNCHANGED <<destinations, bookings, uuids, returned, created_dests, issued, bk0>>

\* ------------------------------------------------------------ specification
\* requests other than seed: one store call each
Request ==
  \/ GetDestinations
  \/ \E input \in DestinationCreate, fail \in BOOLEAN : CreateDestination(input, fail)
  \/ \E destination_id \in DestinationIdParams : GetTrips(destination_id)
  \/ \E trip_id \in TripIdParams : GetTrip(trip_id)
  \/ \E input \in TripPackageCreate, fail \in BOOLEAN : CreateTrip(input, fail)
  \/ GetBookings
  \/ \E input \in BookingCreate, fail \in BOOLEAN : CreateBooking(input, datetime_now(uuids + 1), fail)

\* the next store call of seed request p
SeedStep(p) ==
  \/ \E fail \in BOOLEAN : SeedDeleteDestinations(p, fail)
  \/ \E fail \in BOOLEAN : SeedDeleteTrips(p, fail)
  \/ \E fail \in BOOLEAN, k \in 0..(Len(destinations_data) - 1) : SeedInsertDestinations(p, fail, k)
  \/ \E fail \in BOOLEAN, k \in 0..(Len(trips_data) - 1) : SeedInsertTrips(p, fail, k)

\* any requests interleaved with one seed request at a time
Next == Request \/ SeedStep("seed-a")

Spec == Init /\ [][Next]_vars

\* two seed requests handled concurrently, among Create requests; no store failures
NextConcurrent ==
  \/ \E input \in DestinationCreate : CreateDestination(input, FALSE)
  \/ \E input \in TripPackageCreate : CreateTrip(input, FALSE)
  \/ \E p \in Seeds : SeedDeleteDestinations(p, FALSE)
  \/ \E p \in Seeds : SeedDeleteTrips(p, FALSE)
  \/ \E p \in Seeds : SeedInsertDestinations(p, FALSE, 0)
  \/ \E p \in Seeds : SeedInsertTrips(p, FALSE, 0)

SpecConcurrent == Init /\ [][NextConcurrent]_vars


\* ------------------------------------------------------------------ claims
SameButId(a, b) == \A f \in DOMAIN a \ {"id"} : a[f] = b[f]

Ids(coll) == {coll[i].id : i \in DOMAIN coll}

\* C1: after two successful Seed requests run back to back, with no other
\* request in between, there are exactly 4 destinations and exactly 4 trips,
\* none duplicated, and as many bookings as before the first of the two.
C1_SeedTwice ==
  streak = 2 =>
    /\ Len(destinations) = 4 /\ Cardinality(Ids(destinations)) = 4
    /\ Len(trips) = 4 /\ Cardinality(Ids(trips)) = 4
    /\ Len(bookings) = bk0

C1_Witness ==
  /\ streak = 2 /\ bk0 > 0
  /\ resp.op = "seed" /\ resp.status = 200
  /\ \E c \in created_dests : c.cleared

\* C2: List Trips with destination_id = X, the empty string included, returns
\* only records whose destination_id equals X.
C2_FilterExact ==
  (resp.op = "get_trips" /\ resp.status = 200 /\ resp.request.given) =>
    \A i \in DOMAIN resp.body : resp.body[i].destination_id = resp.request.value

\* C3: Get by an identifier never inserted into trips answers 404 "Trip not
\* found"; Get by the identifier of a stored record answers that identifier.
C3_GetTrip ==
  /\ \A trip_id \in TripIdParams \ ever_trip_ids :
        get_trip(trips, trip_id) = HTTPException("get_trip", 404, "Trip not found")
  /\ \A i \in DOMAIN trips :
        /\ get_trip(trips, trips[i].id).status = 200
        /\ get_trip(trips, trips[i].id).body.id = trips[i].id

C3_Witness ==
  /\ resp = HTTPException("get_trip", 404, "Trip not found")
  /\ Len(trips) > 4
  /\ ever_trip_ids # {}

\* C4: every successful Create Destination appends exactly one record, the one
\* it returns, whose id is non-empty and was returned by no earlier Create,
\* also when an identical payload is already stored.
C4_CreateDestination ==
  [][ (resp'.op = "create_destination" /\ resp'.status = 200 /\ uuids' = uuids + 1) =>
        /\ resp'.body.id # ""
        /\ resp'.body.id \notin returned
        /\ resp'.body.id \notin Ids(destinations)
        /\ destinations' = Append(destinations, resp'.body) ]_vars

C4_Witness ==
  /\ resp.op = "create_destination" /\ resp.status = 200
  /\ \E i, j \in DOMAIN destinations :
        /\ i < j
        /\ destinations[j] = resp.body
        /\ SameButId(destinations[i], destinations[j])
        /\ destinations[i].id # destinations[j].id
  /\ Cardinality(returned) > 1

\* C5 as stated: a record returned by Create Destination is in every later
\* List Destinations result, whatever requests came in between.
C5_AlwaysListed ==
  \A c \in created_dests : c.doc \in Range(get_destinations(destinations))

\* C5 as amended: a record returned by Create Destination is in every later
\* List Destinations result as long as no Seed has deleted the destinations
\* since and the collection holds at most 1000 documents.
C5_ListedUntilCleared ==
  \A c \in created_dests :
    (~c.cleared /\ Len(destinations) <= ListCap) =>
       c.doc \in Range(get_destinations(destinations))

C5_Witness ==
  /\ resp.op = "get_destinations"
  /\ Len(resp.body) > 4
  /\ \E c \in created_dests : ~c.cleared /\ c.doc \in Range(resp.body)

\* C6: no two destinations share an id and no two trips share an id, under
\* any interleaving of Create and Seed requests.
C6_UniqueIds ==
  /\ Cardinality(Ids(destinations)) = Len(destinations)
  /\ Cardinality(Ids(trips)) = Len(trips)

\* the step in which a seed request deletes the trips
SeedClearsTrips ==
  \E p \in Seeds : pc[p] = "delete_trips" /\ pc'[p] = "insert_destinations"

\* C7 as stated: a stored trip is still stored, unchanged, after every step,
\* and Get by its id returns it.
C7_NeverDeleted ==
  [][ \A i \in DOMAIN trips :
        /\ trips[i] \in Range(trips')
        /\ get_trip(trips', trips[i].id) = Ok("get_trip", trips[i]) ]_vars

\* C7 as amended: a stored trip is still stored, unchanged, and returned by
\* Get, after every step other than a Seed's delete of the trips collection.
C7_DeletedOnlyBySeed ==
  [][ ~SeedClearsTrips =>
        \A i \in DOMAIN trips :
          /\ trips[i] \in Range(trips')
          /\ get_trip(trips', trips[i].id) = Ok("get_trip", trips[i]) ]_vars

C7_Witness ==
  /\ resp.op = "get_trip" /\ resp.status = 200
  /\ resp.body.id \in returned
  /\ Len(trips) > 4
  /\ pc["seed-a"] = "idle"

\* C8: every stored booking has status "confirmed", and the bookings only
\* grow: a successful Create Booking appends one record, every other step
\* leaves the collection as it is.
C8_BookingsOnlyGrow ==
  /\ [](\A i \in DOMAIN bookings : bookings[i].status = "confirmed")
  /\ [][ IF resp'.op = "create_booking" /\ resp'.status = 200 /\ uuids' = uuids + 1
         THEN /\ Len(bookings') = Len(bookings) + 1
              /\ IsPrefix(bookings, bookings')
              /\ bookings'[Len(bookings')].id = resp'.body.id
         ELSE bookings' = bookings ]_vars

C8_Witness ==
  /\ resp.op = "create_booking" /\ resp.status = 200
  /\ Len(bookings) > 2
  /\ bookings[Len(bookings)].status = "confirmed"
  /\ streak = 0 /\ \E c \in created_dests : c.cleared

\* C9: the timestamp List Bookings returns for a booking is the timestamp
\* generated when the booking was created, whether the stored field is an
\* ISO-8601 string or a structured timestamp.
C9_TimestampRoundTrip ==
  \A i \in DOMAIN bookings :
    \A r \in issued :
      r.id = bookings[i].id => get_bookings(bookings)[i].booking_date = r.at

C9_Witness ==
  /\ resp.op = "get_bookings"
  /\ \E i, j, k \in DOMAIN bookings :
        /\ IsStr(bookings[i].booking_date) /\ resp.body[i].booking_date.microsecond = 0
        /\ IsStr(bookings[j].booking_date) /\ resp.body[j].booking_date.microsecond # 0
        /\ ~IsStr(bookings[k].booking_date) /\ resp.body[k] = bookings[k]

\* C10: a Seed whose bulk insert of destinations or of trips fails ends with
\* an error and rolls nothing back: with no other request acting beside it,
\* every earlier destination and trip is gone, the collections hold the part
\* of the fixed dataset written before the failure, and the bookings are as
\* many as before.
C10_NoRollback ==
  (resp.op = "seed" /\ resp.status # 200
     /\ resp.raised_at \in {"insert_destinations", "insert_trips"}
     /\ alone # {} /\ \A p \in Seeds : pc[p] = "idle") =>
    /\ resp.status = 500
    /\ IsPrefix(destinations, destinations_data)
    /\ IsPrefix(trips, trips_data)
    /\ resp.raised_at = "insert_destinations" => Len(destinations) < 4 /\ trips = <<>>
    /\ resp.raised_at = "insert_trips" => Len(destinations) = 4 /\ Len(trips) < 4
    /\ Len(bookings) = bk0

C10_Witness ==
  /\ resp = Raised("seed", "insert_trips")
  /\ alone # {} /\ \A p \in Seeds : pc[p] = "idle"
  /\ Len(destinations) = 4 /\ trips = <<>>
  /\ bookings # <<>>
  /\ \E c \in created_dests : c.cleared

====
